---- MODULE Spec2Model ----
(***************************************************************************)
(* Resumable multipart upload manager (AWSS3UploadManager).                *)
(*                                                                         *)
(* State: the localStorage record '__uploadInProgress' (the session map),  *)
(* the IndexedDB database 'AmplifyStorageIDB' (the content store), the     *)
(* in-memory task registry, the createTask/listTasks calls in flight, the  *)
(* AbortMultipartUpload requests sent by the purge sweep, and the upload   *)
(* tasks.  The AWSS3UploadTask class is imported by the manager but its    *)
(* source is not part of the files modelled here; its state machine is     *)
(* taken from section 4.4 of the specification.                            *)
(*                                                                         *)
(* Every await of the manager is a suspension point: an action is one      *)
(* synchronous run of the code between two suspension points.  Date.now()  *)
(* is read as one value within such a run.  The caller always supplies an  *)
(* emitter (addTask dereferences it unconditionally), a new one per call.  *)
(* localStorage itself does not fail; IndexedDB and the object store do.   *)
(***************************************************************************)
EXTENDS Integers, Sequences, FiniteSets, TLC

\* ------------------------------------------------------------------ bounds
MaxCalls == 2
MaxTicks == 2
NumParts == 2
MaxTabOps == 3
MaxRecords == 3
MaxConfigures == 1

\* ------------------------------------------------------- program constants
oneHourInMs == 1000 * 60 * 60
\* the clock advances in steps of one hour: a session is seen at the ages
\* 0, ttl (not expired) and 2 * ttl (expired)
TickMs == oneHourInMs

Undefined == "undefined"

\* ----------------------------------------------------------------- inputs
\* A File has a name and a lastModified; a plain Blob has neither.
FileA  == [kind |-> "File", name |-> "a", lastModified |-> 1, size |-> 2, type |-> "t", bytes |-> "x"]
FileA2 == [kind |-> "File", name |-> "a", lastModified |-> 2, size |-> 2, type |-> "t", bytes |-> "y"]
BlobB  == [kind |-> "Blob", name |-> Undefined, lastModified |-> 0, size |-> 2, type |-> "t", bytes |-> "z"]
Files == {FileA, FileA2, BlobB}
\* the value of _initMultiupload's local f before it is assigned
NoFile == [kind |-> "none", name |-> Undefined, lastModified |-> 0, size |-> 0,
           type |-> Undefined, bytes |-> Undefined]
Buckets == {"b"}
Keys == {"k"}
AccessLevels == {"public"}

_isFile(x) == x.kind = "File"
_isBlob(x) == x.kind \in {"File", "Blob"}

\* [..].join('-')
_getFileKey(blob, bucket, key) ==
    IF _isFile(blob)
    THEN blob.name \o "-" \o ToString(blob.lastModified) \o "-" \o ToString(blob.size)
         \o "-" \o blob.type \o "-" \o bucket \o "-" \o key
    ELSE IF _isBlob(blob)
    THEN ToString(blob.size) \o "-" \o blob.type \o "-" \o bucket \o "-" \o key
    ELSE ""

\* ------------------------------------------- the session map (a JSON object)
\* A JSON object keeps its properties in insertion order: the map is a
\* sequence of [k, v] pairs without duplicate keys.
MapKeys(m) == {m[i].k : i \in 1..Len(m)}
MapHas(m, k) == k \in MapKeys(m)
MapIdx(m, k) == CHOOSE i \in 1..Len(m) : m[i].k = k
MapGet(m, k) == m[MapIdx(m, k)].v
\* mutant: an assignment always adds a property
MapSet_append(m, k, v) == Append(m, [k |-> k, v |-> v])

\* uploads[k] = v: an existing property keeps its position
MapSet(m, k, v) ==
    IF MapHas(m, k)
    THEN [i \in 1..Len(m) |-> IF m[i].k = k THEN [k |-> k, v |-> v] ELSE m[i]]
    ELSE Append(m, [k |-> k, v |-> v])
\* delete uploads[k]
MapDelete(m, k) == SelectSeq(m, LAMBDA e : e.k # k)


\* ------------------------------------------------------------------- state
VARIABLES
    now,            \* Date.now(), in ms
    hasItem,        \* localStorage holds an item under UPLOADS_STORAGE_KEY
    uploads,        \* the parsed value of that item (<<>> when there is none)
    idbState,       \* "absent": no database; "noStore": database without the
                    \* 'files' object store; "ready": database with it
    idbFiles,       \* the 'files' object store: file name -> stored file
    calls,          \* the createTask / listTasks calls made so far
    aborts,         \* AbortMultipartUpload requests sent by _purgeExpiredKeys
    uploadTasks,    \* _uploadTasks: uploadId -> index into tasks
    tasks,          \* the AWSS3UploadTask objects constructed by addTask
    remoteUploads,  \* the object store: uploadId -> [status, parts]
    lastPurge,      \* what the latest _purgeExpiredKeys read, sent and wrote
    \* two manager instances on one localStorage record
    tabs,           \* per instance: the read-modify-write cycle it is in
    tabLog,         \* the setItem writes made so far, in order
    \* AWSKinesisProvider
    _buffer,        \* this._buffer: the events waiting to be flushed
    _config,        \* this._config
    _kinesis,       \* this._kinesis: the credentials the client was built with
    _timer,         \* this._timer: the handle setInterval returned
    timers,         \* the live intervals: handle -> what the callback captured
    requests,       \* the PutRecordsCommand requests sent so far
    recorded        \* the record() calls made so far and how each settled

managerVars == <<now, hasItem, uploads, idbState, idbFiles, calls, aborts,
                 uploadTasks, tasks, remoteUploads, lastPurge>>
tabVars == <<tabs, tabLog>>
kinesisVars == <<_buffer, _config, _kinesis, _timer, timers, requests, recorded>>

vars == <<managerVars, tabVars, kinesisVars>>

NoPurge == [done |-> FALSE, time |-> 0, ttl |-> 0, before |-> <<>>, after |-> <<>>, sent |-> <<>>]

EmptyObject == [hasUploadId |-> FALSE, hasParts |-> FALSE, UploadId |-> Undefined, Parts |-> {}]

UploadIdOf(n) == "u" \o ToString(n)

\* mutant: the new session is written without its touch time
FileMetadata_untouched(uploadId, t, bucket, key, accessLevel, f) ==
    [uploadId |-> uploadId, timeStarted |-> t, lastTouched |-> 0,
     bucket |-> bucket, key |-> key, accessLevel |-> accessLevel,
     fileName |-> IF _isFile(f) THEN f.name ELSE Undefined]

\* fileMetadata of lines 375-383
FileMetadata(uploadId, t, bucket, key, accessLevel, f) ==
    [uploadId |-> uploadId, timeStarted |-> t, lastTouched |-> t,
     bucket |-> bucket, key |-> key, accessLevel |-> accessLevel,
     fileName |-> IF _isFile(f) THEN f.name ELSE Undefined]

NoSession == FileMetadata(Undefined, 0, Undefined, Undefined, Undefined, BlobB)

\* The page is loaded and the manager constructed: nothing is in memory.
\* Either nothing was ever uploaded (the database may not exist yet), or an
\* earlier page left an upload of FileA unfinished: _initMultiupload wrote
\* its session at time 0 and stored the file, part 1 reached the object
\* store, and _getCachedUploadParts touched the session at time `touched`
\* (0: it was never resumed); the clock is read at that time.  Both stored
\* states are the ones the actions below produce from a first visit:
\* createTask(FileA) at 0, part 1 uploaded, and for touched = oneHourInMs a
\* second createTask(FileA) one hour later.
InitFirstVisit ==
    /\ now = 0
    /\ hasItem = FALSE
    /\ uploads = <<>>
    /\ idbState \in {"absent", "ready"}
    /\ idbFiles = <<>>
    /\ remoteUploads = <<>>

InitAfterReload(touched) ==
    /\ now = touched
    /\ hasItem = TRUE
    /\ uploads = <<[k |-> _getFileKey(FileA, "b", "k"),
                    v |-> [FileMetadata(UploadIdOf(1), 0, "b", "k", "public", FileA)
                              EXCEPT !.lastTouched = touched]]>>
    /\ idbState = "ready"
    /\ idbFiles = ("a" :> FileA)
    /\ remoteUploads = (UploadIdOf(1) :> [status |-> "open", parts |-> {1}])

\* The two manager instances (two tabs of one origin), neither inside a
\* read-modify-write cycle of the record.
Tabs == {1, 2}
IdleTab == [pc |-> "idle", op |-> "none", fileKey |-> Undefined,
            fileMetadata |-> NoSession, uploads |-> <<>>]
TabsIdle ==
    /\ tabs = [m \in Tabs |-> IdleTab]
    /\ tabLog = <<>>

\* No AWSKinesisProvider has been constructed.
NoConfig == [bufferSize |-> 0, flushSize |-> 0, flushInterval |-> 0, resendLimit |-> 0,
             credentials |-> Undefined]
NoProvider ==
    /\ _buffer = <<>>
    /\ _config = NoConfig
    /\ _kinesis = Undefined
    /\ _timer = 0
    /\ timers = <<>>
    /\ requests = <<>>
    /\ recorded = <<>>

\* One manager with nothing in memory.
ManagerConstructed ==
    /\ calls = <<>>
    /\ aborts = <<>>
    /\ uploadTasks = <<>>
    /\ tasks = <<>>
    /\ lastPurge = NoPurge

Init ==
    /\ \/ InitFirstVisit
       \/ \E touched \in {0, oneHourInMs} : InitAfterReload(touched)
    /\ ManagerConstructed
    /\ TabsIdle
    /\ NoProvider

\* this._storage.getItem(UPLOADS_STORAGE_KEY) parsed, "|| {}" applied
StoredUploads == IF hasItem THEN uploads ELSE <<>>

\* ------------------------------------------------------ _purgeExpiredKeys
\* hasExpired of line 221
PurgeHasExpired(upload, t, ttl) == t - upload.timeStarted > ttl

\* The entries for which the sweep sends AbortMultipartUploadCommand, in
\* iteration order.
PurgeExpiredEntries(m, t, ttl) == SelectSeq(m, LAMBDA e : PurgeHasExpired(e.v, t, ttl))

\* mutant: the sweep deletes the expired entries before it writes the map
_purgeExpiredKeys_eager(m, t, ttl) ==
    SelectSeq(m, LAMBDA e : ~PurgeHasExpired(e.v, t, ttl))

\* mutant: the sweep deletes every entry whose age has reached the ttl
_purgeExpiredKeys_reached(m, t, ttl) ==
    SelectSeq(m, LAMBDA e : ~(t - e.v.timeStarted >= ttl))

\* mutant: the sweep restarts the age of the entries it keeps
_purgeExpiredKeys_restamped(m, t, ttl) ==
    [i \in 1..Len(m) |-> [k |-> m[i].k, v |-> [m[i].v EXCEPT !.timeStarted = t]]]

\* The map the sweep writes back at line 240 (JSON.stringify(uploads)).  The delete of line 236 runs
\* in the .then of the abort request, after this write, on the local object.
_purgeExpiredKeys(m, t, ttl) == m

AbortRequests(c, expired) ==
    [i \in 1..Len(expired) |->
        [call |-> c, k |-> expired[i].k, bucket |-> expired[i].v.bucket,
         key |-> expired[i].v.key, uploadId |-> expired[i].v.uploadId,
         status |-> "sent"]]

\* ---------------------------------------------------- _getCachedUploadParts
\* mutant: a session touched exactly one hour ago counts as expired
CachedHasExpired_reached(cached, t) == t - cached.lastTouched >= oneHourInMs

\* hasExpired of line 83
CachedHasExpired(cached, t) == t - cached.lastTouched > oneHourInMs

\* mutant: the touch restarts the session's age as well
_getCachedUploadParts_restarted(m, file, bucket, key, t) ==
    LET fileKey == _getFileKey(file, bucket, key) IN
    IF ~MapHas(m, fileKey)
    THEN [map |-> m, listed |-> Undefined]
    ELSE LET cachedUploadFileData == MapGet(m, fileKey) IN
         IF ~CachedHasExpired(cachedUploadFileData, t)
         THEN [map |-> MapSet(m, fileKey, [cachedUploadFileData EXCEPT !.lastTouched = t,
                                                                      !.timeStarted = t]),
               listed |-> cachedUploadFileData.uploadId]
         ELSE [map |-> m, listed |-> Undefined]

\* Result of the synchronous part of _getCachedUploadParts on map m:
\* the map it leaves in storage and the uploadId it sends ListParts for
\* (Undefined when it returns without sending).  The sweep has just written
\* the record, so the item exists; every session the manager writes has
\* the lastTouched property.
_getCachedUploadParts(m, file, bucket, key, t) ==
    LET fileKey == _getFileKey(file, bucket, key) IN
    IF ~MapHas(m, fileKey)
    THEN [map |-> m, listed |-> Undefined]
    ELSE LET cachedUploadFileData == MapGet(m, fileKey) IN
         IF ~CachedHasExpired(cachedUploadFileData, t)
         THEN [map |-> MapSet(m, fileKey, [cachedUploadFileData EXCEPT !.lastTouched = t]),
               listed |-> cachedUploadFileData.uploadId]
         ELSE [map |-> m, listed |-> Undefined]

NewCall(op, file, bucket, key, accessLevel) ==
    [op |-> op, file |-> file, bucket |-> bucket, key |-> key,
     accessLevel |-> accessLevel, pc |-> "start", purgeUploads |-> <<>>,
     listedUploadId |-> Undefined, cachedUpload |-> EmptyObject,
     handlers |-> FALSE, f |-> NoFile,
     sentCreate |-> FALSE, task |-> 0, result |-> "pending", error |-> "",
     storeFailure |-> FALSE, snapshot |-> <<>>, files |-> <<>>, listed |-> <<>>,
     \* for the properties: when the call was made, the session it found
     \* under its fingerprint, and how ListParts was answered
     startedAt |-> now, hadSession |-> FALSE, session |-> NoSession,
     listOutcome |-> "none"]

\* createTask -> addTask, up to its first await: the purge sweep, then the
\* synchronous part of _getCachedUploadParts.
AddTaskStart(file, bucket, key, accessLevel) ==
    /\ Len(calls) < MaxCalls
    /\ LET c == Len(calls) + 1
           m0 == StoredUploads
           expired == PurgeExpiredEntries(m0, now, oneHourInMs)
           m1 == _purgeExpiredKeys(m0, now, oneHourInMs)
           g == _getCachedUploadParts(m1, file, bucket, key, now)
       IN /\ aborts' = aborts \o AbortRequests(c, expired)
          /\ lastPurge' = [done |-> TRUE, time |-> now, ttl |-> oneHourInMs,
                           before |-> m0, after |-> m1,
                           sent |-> AbortRequests(c, expired)]
          /\ hasItem' = TRUE
          /\ uploads' = g.map
          /\ calls' = Append(calls,
                [NewCall("createTask", file, bucket, key, accessLevel) EXCEPT
                    !.purgeUploads = IF Len(expired) = 0 THEN <<>> ELSE m0,
                    !.hadSession = MapHas(m1, _getFileKey(file, bucket, key)),
                    !.session = IF MapHas(m1, _getFileKey(file, bucket, key))
                                THEN MapGet(m1, _getFileKey(file, bucket, key))
                                ELSE NoSession,
                    !.listedUploadId = g.listed,
                    !.pc = IF g.listed = Undefined THEN "awaitCached" ELSE "awaitListParts"])
    /\ UNCHANGED <<now, idbState, idbFiles, uploadTasks, tasks, remoteUploads>>
    /\ UNCHANGED <<tabVars, kinesisVars>>

\* ------------------------------------------------- the purge's abort requests
\* The request succeeds: the .then of line 233 deletes the key from the
\* sweep's local object, which is not written to storage again.
AbortSucceeds(i) ==
    /\ i \in 1..Len(aborts)
    /\ aborts[i].status = "sent"
    /\ aborts' = [aborts EXCEPT ![i].status = "ok"]
    /\ calls' = [calls EXCEPT ![aborts[i].call].purgeUploads = MapDelete(@, aborts[i].k)]
    /\ remoteUploads' =
          [u \in DOMAIN remoteUploads |->
              IF u = aborts[i].uploadId /\ remoteUploads[u].status = "open"
              THEN [remoteUploads[u] EXCEPT !.status = "aborted"]
              ELSE remoteUploads[u]]
    /\ UNCHANGED <<now, hasItem, uploads, idbState, idbFiles, uploadTasks, tasks, lastPurge>>
    /\ UNCHANGED <<tabVars, kinesisVars>>

\* The request fails: there is no rejection handler.
AbortFails(i) ==
    /\ i \in 1..Len(aborts)
    /\ aborts[i].status = "sent"
    /\ aborts' = [aborts EXCEPT ![i].status = "failed"]
    /\ UNCHANGED <<now, hasItem, uploads, idbState, idbFiles, calls, uploadTasks,
                   tasks, remoteUploads, lastPurge>>
    /\ UNCHANGED <<tabVars, kinesisVars>>

\* ------------------------------------------------------------ session map
\* mutant: the key is not deleted
_removeKey_kept(m, k) == m

\* _removeKey
_removeKey(m, k) == MapDelete(m, k)

\* _addKey
_addKey(m, k, fileMetadata) == MapSet(m, k, fileMetadata)

\* mutant: the Parts property is not required
_isListPartsOutput_anyParts(x) == x.hasUploadId

\* _isListPartsOutput
_isListPartsOutput(x) == x.hasUploadId /\ x.hasParts

\* ------------------------------------------------------------ upload tasks
\* new AWSS3UploadTask({...}): the task starts in INIT with the parts it is
\* given as already completed.
NewTask(uploadId, bucket, key, file, completedParts, emitter) ==
    [uploadId |-> uploadId, bucket |-> bucket, key |-> key, file |-> file,
     seeded |-> completedParts, completedParts |-> completedParts,
     uploaded |-> {}, emitter |-> emitter, state |-> "INIT"]

Terminal == {"COMPLETED", "ABORTED", "FAILED"}

\* ------------------------------------------------- addTask after the await
\* What the object store answers to ListParts for uploadId u.
ListPartsOutput(u) ==
    [hasUploadId |-> TRUE, hasParts |-> TRUE, UploadId |-> u,
     Parts |-> remoteUploads[u].parts]

\* mutant: the task is built without the parts of the listing
AddTaskContinue_unseeded(c, cachedUpload, listOutcome) ==
    IF _isListPartsOutput(cachedUpload)
    THEN /\ tasks' = Append(tasks,
                NewTask(cachedUpload.UploadId, calls[c].bucket, calls[c].key,
                        calls[c].file, {}, c))
         /\ uploadTasks' = (cachedUpload.UploadId :> (Len(tasks) + 1)) @@ uploadTasks
         /\ calls' = [calls EXCEPT ![c].cachedUpload = cachedUpload,
                                   ![c].listOutcome = listOutcome,
                                   ![c].handlers = TRUE,
                                   ![c].task = Len(tasks) + 1,
                                   ![c].result = "task",
                                   ![c].pc = "done"]
    ELSE /\ calls' = [calls EXCEPT ![c].cachedUpload = cachedUpload,
                                   ![c].listOutcome = listOutcome,
                                   ![c].handlers = TRUE,
                                   ![c].pc = "awaitFind"]
         /\ UNCHANGED <<tasks, uploadTasks>>

\* Lines 324-346: subscribe the two handlers, then either build the task
\* from the listing or enter _initMultiupload, which opens the database for
\* _findFileFromIDB and waits.
AddTaskContinue(c, cachedUpload, listOutcome) ==
    IF _isListPartsOutput(cachedUpload)
    THEN /\ tasks' = Append(tasks,
                NewTask(cachedUpload.UploadId, calls[c].bucket, calls[c].key,
                        calls[c].file, cachedUpload.Parts, c))
         /\ uploadTasks' = (cachedUpload.UploadId :> (Len(tasks) + 1)) @@ uploadTasks
         /\ calls' = [calls EXCEPT ![c].cachedUpload = cachedUpload,
                                   ![c].listOutcome = listOutcome,
                                   ![c].handlers = TRUE,
                                   ![c].task = Len(tasks) + 1,
                                   ![c].result = "task",
                                   ![c].pc = "done"]
    ELSE /\ calls' = [calls EXCEPT ![c].cachedUpload = cachedUpload,
                                   ![c].listOutcome = listOutcome,
                                   ![c].handlers = TRUE,
                                   ![c].pc = "awaitFind"]
         /\ UNCHANGED <<tasks, uploadTasks>>

\* _getCachedUploadParts returned null or undefined: cachedUpload = {}.
AddTaskNoCache(c) ==
    /\ c \in 1..Len(calls)
    /\ calls[c].pc = "awaitCached"
    /\ AddTaskContinue(c, EmptyObject, "none")
    /\ UNCHANGED <<now, hasItem, uploads, idbState, idbFiles, aborts, remoteUploads, lastPurge>>
    /\ UNCHANGED <<tabVars, kinesisVars>>

\* The answer to ListPartsCommand arrives.
\*   "ok":         a listing of an upload the object store still holds
\*   "noParts", "noUploadId": an answer without that property
\*   "throw":      the request fails; the catch of line 321 keeps {}
ListPartsOutcomes == {"ok", "noParts", "noUploadId", "throw"}

ListPartsReturn(c, outcome) ==
    /\ c \in 1..Len(calls)
    /\ calls[c].pc = "awaitListParts"
    /\ LET u == calls[c].listedUploadId IN
       CASE outcome = "ok" ->
              /\ u \in DOMAIN remoteUploads
              /\ remoteUploads[u].status = "open"
              /\ AddTaskContinue(c, ListPartsOutput(u), outcome)
         [] outcome = "noParts" ->
              AddTaskContinue(c, [EmptyObject EXCEPT !.hasUploadId = TRUE, !.UploadId = u], outcome)
         [] outcome = "noUploadId" ->
              AddTaskContinue(c, [EmptyObject EXCEPT !.hasParts = TRUE], outcome)
         [] outcome = "throw" ->
              AddTaskContinue(c, EmptyObject, outcome)
    /\ UNCHANGED <<now, hasItem, uploads, idbState, idbFiles, aborts, remoteUploads, lastPurge>>
    /\ UNCHANGED <<tabVars, kinesisVars>>

\* --------------------------------------------------------- _initMultiupload
\* Sends CreateMultipartUploadCommand (line 360).
SendCreate(c, f) ==
    calls' = [calls EXCEPT ![c].f = f, ![c].sentCreate = TRUE, ![c].pc = "awaitCreate"]

\* The call can never settle: the promise it awaits has no handler left
\* that resolves or rejects it.
Hang(c, isStoreFailure) ==
    calls' = [calls EXCEPT ![c].pc = "hung", ![c].storeFailure = isStoreFailure]

Reject(c, error, isStoreFailure) ==
    calls' = [calls EXCEPT ![c].pc = "done", ![c].result = "rejected",
                           ![c].error = error, ![c].storeFailure = isStoreFailure]

\* idb.open(IDB_KEY, 2) on a database that does not exist creates it; no
\* function that opens it first has an onupgradeneeded handler, so it is
\* created without the 'files' object store.
OpenedWithoutUpgrade(s) == IF s = "absent" THEN "noStore" ELSE s

\* _findFileFromIDB settles or gets stuck.
\*   "openError":    idb.open fails; the request has no onerror
\*   "requestError": the get request fails; db.onerror rejects
\*   "ok":           the database opens and the get request succeeds
IdbOutcomes == {"openError", "requestError", "ok"}

FindFileReturn(c, outcome) ==
    /\ c \in 1..Len(calls)
    /\ calls[c].pc = "awaitFind"
    /\ CASE outcome = "openError" ->
              /\ Hang(c, TRUE)
              /\ UNCHANGED idbState
         [] outcome # "openError" /\ idbState # "ready" ->
              \* db.transaction(['files']) throws NotFoundError in onsuccess
              /\ outcome = "ok"
              /\ Hang(c, TRUE)
              /\ idbState' = OpenedWithoutUpgrade(idbState)
         [] outcome # "openError" /\ idbState = "ready" /\ calls[c].file.name = Undefined ->
              \* index.get(undefined) throws DataError in onsuccess
              /\ outcome = "ok"
              /\ Hang(c, FALSE)
              /\ UNCHANGED idbState
         [] outcome = "requestError" /\ idbState = "ready" /\ calls[c].file.name # Undefined ->
              /\ Reject(c, "idbRequest", TRUE)
              /\ UNCHANGED idbState
         [] outcome = "ok" /\ idbState = "ready" /\ calls[c].file.name # Undefined ->
              /\ UNCHANGED idbState
              /\ IF calls[c].file.name \in DOMAIN idbFiles
                 THEN SendCreate(c, idbFiles[calls[c].file.name])
                 ELSE calls' = [calls EXCEPT ![c].pc = "awaitStore"]
    /\ UNCHANGED <<now, hasItem, uploads, idbFiles, aborts, uploadTasks, tasks,
                   remoteUploads, lastPurge>>
    /\ UNCHANGED <<tabVars, kinesisVars>>

\* mutant: the put request does not write
putFile_skipped(store, file) == store

\* putFile (lines 157-164): objectStore.put(file) with keyPath 'name'
putFile(store, file) == (file.name :> file) @@ store

\* _storeFileToIDB settles or gets stuck.
\*   "openError":    idb.open fails; request.onerror rejects
\*   "requestError": the put request fails; db.onerror only logs
\*   "ok":           the file is put under its name
StoreFileReturn(c, outcome) ==
    /\ c \in 1..Len(calls)
    /\ calls[c].pc = "awaitStore"
    /\ idbState = "ready"
    /\ CASE outcome = "openError" ->
              /\ Reject(c, "idbOpen", TRUE)
              /\ UNCHANGED idbFiles
         [] outcome = "requestError" ->
              /\ Hang(c, TRUE)
              /\ UNCHANGED idbFiles
         [] outcome = "ok" ->
              /\ idbFiles' = putFile(idbFiles, calls[c].file)
              /\ SendCreate(c, calls[c].file)
    /\ UNCHANGED <<now, hasItem, uploads, idbState, aborts, uploadTasks, tasks,
                   remoteUploads, lastPurge>>
    /\ UNCHANGED <<tabVars, kinesisVars>>

\* The answer to CreateMultipartUploadCommand arrives (lines 366-385).
CreateOutcomes == {"ok", "throw"}

CreateReturn(c, outcome) ==
    /\ c \in 1..Len(calls)
    /\ calls[c].pc = "awaitCreate"
    /\ CASE outcome = "throw" ->
              /\ Reject(c, "createMultipartUpload", FALSE)
              /\ UNCHANGED <<hasItem, uploads, uploadTasks, tasks, remoteUploads>>
         [] outcome = "ok" ->
              LET u == UploadIdOf(Cardinality(DOMAIN remoteUploads) + 1)
                  fileKey == _getFileKey(calls[c].file, calls[c].bucket, calls[c].key)
              IN /\ remoteUploads' = (u :> [status |-> "open", parts |-> {}]) @@ remoteUploads
                 /\ tasks' = Append(tasks,
                        NewTask(u, calls[c].bucket, calls[c].key, calls[c].f, {}, c))
                 /\ uploadTasks' = (u :> (Len(tasks) + 1)) @@ uploadTasks
                 /\ hasItem' = TRUE
                 /\ uploads' = _addKey(StoredUploads, fileKey,
                        FileMetadata(u, now, calls[c].bucket, calls[c].key,
                                     calls[c].accessLevel, calls[c].f))
                 /\ calls' = [calls EXCEPT ![c].task = Len(tasks) + 1,
                                           ![c].result = "task",
                                           ![c].pc = "done"]
    /\ UNCHANGED <<now, idbState, idbFiles, aborts, lastPurge>>
    /\ UNCHANGED <<tabVars, kinesisVars>>

\* ---------------------------------------------- the task's state machine
\* The handlers addTask subscribes on the call's emitter for
\* TaskEvents.UPLOAD_COMPLETE and TaskEvents.ABORT (lines 325-330): each
\* runs _removeKey(fileKey) as a full read-modify-write of the record.
\* Nothing is subscribed for TaskEvents.UPLOAD_PROGRESS.
OnTaskEnd(emitter) ==
    IF calls[emitter].handlers
    THEN /\ hasItem' = TRUE
         /\ uploads' = _removeKey(StoredUploads,
                _getFileKey(calls[emitter].file, calls[emitter].bucket, calls[emitter].key))
    ELSE UNCHANGED <<hasItem, uploads>>

\* mutant: the cleanup is subscribed for part progress as well
HandledEvents_progress == {"uploadComplete", "abort", "uploadPartProgress"}

\* the TaskEvents addTask subscribes a handler for (lines 325 and 328)
HandledEvents == {"uploadComplete", "abort"}

\* emitter.emit(event): the subscribed handlers run
Emit(emitter, event) ==
    IF event \in HandledEvents
    THEN OnTaskEnd(emitter)
    ELSE UNCHANGED <<hasItem, uploads>>

\* the object store still holds the multipart upload u
RemoteOpen(u) == u \in DOMAIN remoteUploads /\ remoteUploads[u].status = "open"

SetRemoteStatus(u, status) ==
    remoteUploads' =
        [x \in DOMAIN remoteUploads |->
            IF x = u /\ remoteUploads[x].status = "open"
            THEN [remoteUploads[x] EXCEPT !.status = status]
            ELSE remoteUploads[x]]

\* INIT -> IN_PROGRESS when transfer begins.
TaskStart(t) ==
    /\ t \in 1..Len(tasks)
    /\ tasks[t].state = "INIT"
    /\ tasks' = [tasks EXCEPT ![t].state = "IN_PROGRESS"]
    /\ UNCHANGED <<now, hasItem, uploads, idbState, idbFiles, calls, aborts,
                   uploadTasks, remoteUploads, lastPurge>>
    /\ UNCHANGED <<tabVars, kinesisVars>>

\* One part that is not completed yet is uploaded; parts finish in any
\* order.  The task emits a progress event.
TaskPartDone(t, p) ==
    /\ t \in 1..Len(tasks)
    /\ tasks[t].state = "IN_PROGRESS"
    /\ RemoteOpen(tasks[t].uploadId)
    /\ p \in (1..NumParts) \ tasks[t].completedParts
    /\ tasks' = [tasks EXCEPT ![t].completedParts = @ \cup {p},
                              ![t].uploaded = @ \cup {p}]
    /\ remoteUploads' =
          [x \in DOMAIN remoteUploads |->
              IF x = tasks[t].uploadId
              THEN [remoteUploads[x] EXCEPT !.parts = @ \cup {p}]
              ELSE remoteUploads[x]]
    /\ Emit(tasks[t].emitter, "uploadPartProgress")
    /\ UNCHANGED <<now, idbState, idbFiles, calls, aborts, uploadTasks, lastPurge>>
    /\ UNCHANGED <<tabVars, kinesisVars>>

\* A part exhausts its attempts: the task fails.  No event is emitted that
\* the manager listens to.
TaskPartFail(t) ==
    /\ t \in 1..Len(tasks)
    /\ tasks[t].state = "IN_PROGRESS"
    /\ tasks[t].completedParts # 1..NumParts
    /\ tasks' = [tasks EXCEPT ![t].state = "FAILED"]
    /\ UNCHANGED <<now, hasItem, uploads, idbState, idbFiles, calls, aborts,
                   uploadTasks, remoteUploads, lastPurge>>
    /\ UNCHANGED <<tabVars, kinesisVars>>

\* All parts are completed and completeMultipartUpload is answered.
TaskComplete(t, ok) ==
    /\ t \in 1..Len(tasks)
    /\ tasks[t].state = "IN_PROGRESS"
    /\ tasks[t].completedParts = 1..NumParts
    /\ IF ok
       THEN /\ RemoteOpen(tasks[t].uploadId)
            /\ tasks' = [tasks EXCEPT ![t].state = "COMPLETED"]
            /\ SetRemoteStatus(tasks[t].uploadId, "completed")
            /\ Emit(tasks[t].emitter, "uploadComplete")
       ELSE /\ tasks' = [tasks EXCEPT ![t].state = "FAILED"]
            /\ UNCHANGED <<remoteUploads, hasItem, uploads>>
    /\ UNCHANGED <<now, idbState, idbFiles, calls, aborts, uploadTasks, lastPurge>>
    /\ UNCHANGED <<tabVars, kinesisVars>>

\* mutant: an abort request is honoured in every state but ABORTED
TaskAbort_any(t) ==
    /\ t \in 1..Len(tasks)
    /\ tasks[t].state # "ABORTED"
    /\ tasks' = [tasks EXCEPT ![t].state = "ABORTED"]
    /\ SetRemoteStatus(tasks[t].uploadId, "aborted")
    /\ Emit(tasks[t].emitter, "abort")
    /\ UNCHANGED <<now, idbState, idbFiles, calls, aborts, uploadTasks, lastPurge>>
    /\ UNCHANGED <<tabVars, kinesisVars>>

\* An explicit abort request while the task is in progress.
TaskAbort(t) ==
    /\ t \in 1..Len(tasks)
    /\ tasks[t].state = "IN_PROGRESS"
    /\ tasks' = [tasks EXCEPT ![t].state = "ABORTED"]
    /\ SetRemoteStatus(tasks[t].uploadId, "aborted")
    /\ Emit(tasks[t].emitter, "abort")
    /\ UNCHANGED <<now, idbState, idbFiles, calls, aborts, uploadTasks, lastPurge>>
    /\ UNCHANGED <<tabVars, kinesisVars>>

\* ---------------------------------------------------------------- listTasks
\* objStore.getAll(): the stored files in key order
NameOrder == <<"a">>
GetAll(store) ==
    LET present == SelectSeq(NameOrder, LAMBDA n : n \in DOMAIN store)
    IN [i \in 1..Len(present) |-> store[present[i]]]

\* Object.values(uploads).find(u => u.fileName === name): the index of the
\* first such session, 0 when there is none
FindByFileName(m, name) ==
    LET hits == {i \in 1..Len(m) : m[i].v.fileName = name}
    IN IF hits = {} THEN 0 ELSE CHOOSE i \in hits : \A j \in hits : i <= j

\* lines 279-294: one task per stored file, its bucket, key and uploadId
\* spread from the session found for the file's name, if any
ListedTasks(m, files) ==
    [i \in 1..Len(files) |->
        LET j == FindByFileName(m, files[i].name) IN
        IF j = 0
        THEN [bucket |-> Undefined, key |-> Undefined, uploadId |-> Undefined,
              file |-> files[i]]
        ELSE [bucket |-> m[j].v.bucket, key |-> m[j].v.key,
              uploadId |-> m[j].v.uploadId, file |-> files[i]]]

\* listTasks up to the open request: returns null when there is no record.
ListTasksStart ==
    /\ Len(calls) < MaxCalls
    /\ calls' = Append(calls,
          IF ~hasItem
          THEN [NewCall("listTasks", Undefined, Undefined, Undefined, Undefined) EXCEPT
                    !.pc = "done", !.result = "null"]
          ELSE [NewCall("listTasks", Undefined, Undefined, Undefined, Undefined) EXCEPT
                    !.pc = "awaitGetAll", !.snapshot = uploads])
    /\ UNCHANGED <<now, hasItem, uploads, idbState, idbFiles, aborts, uploadTasks,
                   tasks, remoteUploads, lastPurge>>
    /\ UNCHANGED <<tabVars, kinesisVars>>

\* The open request and the getAll request are answered.
ListTasksReturn(c, outcome) ==
    /\ c \in 1..Len(calls)
    /\ calls[c].pc = "awaitGetAll"
    /\ CASE outcome = "openError" ->
              /\ Hang(c, TRUE)
              /\ UNCHANGED idbState
         [] outcome # "openError" /\ idbState # "ready" ->
              /\ outcome = "ok"
              /\ Hang(c, TRUE)
              /\ idbState' = OpenedWithoutUpgrade(idbState)
         [] outcome = "requestError" /\ idbState = "ready" ->
              /\ Reject(c, "idbRequest", TRUE)
              /\ UNCHANGED idbState
         [] outcome = "ok" /\ idbState = "ready" ->
              /\ calls' = [calls EXCEPT ![c].pc = "done", ![c].result = "tasks",
                                        ![c].files = GetAll(idbFiles),
                                        ![c].listed = ListedTasks(calls[c].snapshot, GetAll(idbFiles))]
              /\ UNCHANGED idbState
    /\ UNCHANGED <<now, hasItem, uploads, idbFiles, aborts, uploadTasks, tasks,
                   remoteUploads, lastPurge>>
    /\ UNCHANGED <<tabVars, kinesisVars>>

\* mutant: the lookup returns the first task that was built for the uploadId
getTask_first(uploadId) ==
    LET built == {t \in 1..Len(tasks) : tasks[t].uploadId = uploadId}
    IN IF built = {} THEN 0 ELSE CHOOSE t \in built : \A x \in built : t <= x

\* getTask
getTask(uploadId) ==
    IF uploadId \in DOMAIN uploadTasks THEN uploadTasks[uploadId] ELSE 0

\* -------------------------------------------------------------------- clock
Tick ==
    /\ now < MaxTicks * TickMs
    /\ now' = now + TickMs
    /\ UNCHANGED <<hasItem, uploads, idbState, idbFiles, calls, aborts, uploadTasks,
                   tasks, remoteUploads, lastPurge>>
    /\ UNCHANGED <<tabVars, kinesisVars>>

Next ==
    \/ \E file \in Files, bucket \in Buckets, key \in Keys, level \in AccessLevels :
          AddTaskStart(file, bucket, key, level)
    \/ \E i \in 1..Len(aborts) : AbortSucceeds(i)
    \/ \E i \in 1..Len(aborts) : AbortFails(i)
    \/ \E c \in 1..Len(calls) : AddTaskNoCache(c)
    \/ \E c \in 1..Len(calls), o \in ListPartsOutcomes : ListPartsReturn(c, o)
    \/ \E c \in 1..Len(calls), o \in IdbOutcomes : FindFileReturn(c, o)
    \/ \E c \in 1..Len(calls), o \in IdbOutcomes : StoreFileReturn(c, o)
    \/ \E c \in 1..Len(calls), o \in CreateOutcomes : CreateReturn(c, o)
    \/ \E t \in 1..Len(tasks) : TaskStart(t)
    \/ \E t \in 1..Len(tasks), p \in 1..NumParts : TaskPartDone(t, p)
    \/ \E t \in 1..Len(tasks) : TaskPartFail(t)
    \/ \E t \in 1..Len(tasks), ok \in BOOLEAN : TaskComplete(t, ok)
    \/ \E t \in 1..Len(tasks) : TaskAbort(t)
    \/ ListTasksStart
    \/ \E c \in 1..Len(calls), o \in IdbOutcomes : ListTasksReturn(c, o)
    \/ Tick

Spec == Init /\ [][Next]_vars

\* ============================================ two managers, one record
\* Two manager instances of one origin share the localStorage item.  Each
\* of _addKey (lines 388-392) and _removeKey (243-248) is getItem, a change
\* of the parsed object, and setItem of the whole object; the two
\* instances run in different threads, so the other instance's getItem or
\* setItem can fall between them.
TabFiles == {FileA, FileA2}

\* the cycles started so far
TabOps == Len(tabLog) + Cardinality({m \in Tabs : tabs[m].pc = "write"})

\* _addKey up to its getItem (line 389): the session _initMultiupload
\* passes for a new multipart upload of the file
_addKeyGetItem(m, file) ==
    /\ tabs[m].pc = "idle"
    /\ TabOps < MaxTabOps
    /\ tabs' = [tabs EXCEPT ![m] =
            [pc |-> "write", op |-> "add",
             fileKey |-> _getFileKey(file, "b", "k"),
             fileMetadata |-> FileMetadata(UploadIdOf(TabOps + 1), now, "b", "k", "public", file),
             uploads |-> StoredUploads]]
    /\ UNCHANGED <<managerVars, tabLog, kinesisVars>>

\* _removeKey up to its getItem (line 244)
_removeKeyGetItem(m, file) ==
    /\ tabs[m].pc = "idle"
    /\ TabOps < MaxTabOps
    /\ tabs' = [tabs EXCEPT ![m] =
            [pc |-> "write", op |-> "remove",
             fileKey |-> _getFileKey(file, "b", "k"),
             fileMetadata |-> NoSession,
             uploads |-> StoredUploads]]
    /\ UNCHANGED <<managerVars, tabLog, kinesisVars>>

\* mutant: the change is applied to the record as it is when it is written
TabBase_current(m) == StoredUploads

\* the object the instance changes and writes: the one it parsed at getItem
TabBase(m) == tabs[m].uploads

\* the rest of the cycle: the change and setItem (lines 390-391, 245-246)
TabSetItem(m) ==
    /\ tabs[m].pc = "write"
    /\ hasItem' = TRUE
    /\ uploads' = IF tabs[m].op = "add"
                  THEN _addKey(TabBase(m), tabs[m].fileKey, tabs[m].fileMetadata)
                  ELSE _removeKey(TabBase(m), tabs[m].fileKey)
    /\ tabLog' = Append(tabLog, [tab |-> m, op |-> tabs[m].op, fileKey |-> tabs[m].fileKey,
                                 after |-> uploads'])
    /\ tabs' = [tabs EXCEPT ![m] = IdleTab]
    /\ UNCHANGED <<now, idbState, idbFiles, calls, aborts, uploadTasks, tasks,
                   remoteUploads, lastPurge, kinesisVars>>

InitTabs ==
    /\ \/ InitFirstVisit
       \/ InitAfterReload(0)
    /\ ManagerConstructed
    /\ TabsIdle
    /\ NoProvider

NextTabs ==
    \/ \E m \in Tabs, file \in TabFiles : _addKeyGetItem(m, file)
    \/ \E m \in Tabs, file \in TabFiles : _removeKeyGetItem(m, file)
    \/ \E m \in Tabs : TabSetItem(m)

SpecTabs == InitTabs /\ [][NextTabs]_vars

\* ======================================================= AWSKinesisProvider
BUFFER_SIZE == 1000
FLUSH_SIZE == 100
FLUSH_INTERVAL == 5 * 1000
RESEND_LIMIT == 5

\* event.streamName, and the credentials Credentials.get() yields (a
\* sessionToken with its identityId); NoCredentials is null
Streams == {"s1", "s2"}
CredentialSet == {"c1", "c2"}
NoCredentials == "null"

\* A KinesisProviderConfig as the caller passes it: a number option that
\* is left out is 0 (undefined and 0 are both falsy for ||), credentials
\* that are left out are Undefined.  The caller sets no option or one.
NoOptions == [bufferSize |-> 0, flushSize |-> 0, flushInterval |-> 0, resendLimit |-> 0,
              credentials |-> Undefined]
ConfigOptions ==
    {NoOptions,
     [NoOptions EXCEPT !.bufferSize = 1],
     [NoOptions EXCEPT !.flushSize = 2],
     [NoOptions EXCEPT !.flushInterval = 1],
     [NoOptions EXCEPT !.credentials = "c2"]}

\* x || d
OrDefault(x, d) == IF x = 0 THEN d ELSE x

\* Object.assign({}, this._config, conf)
AssignConfig(config, conf) ==
    [bufferSize |-> IF conf.bufferSize = 0 THEN config.bufferSize ELSE conf.bufferSize,
     flushSize |-> IF conf.flushSize = 0 THEN config.flushSize ELSE conf.flushSize,
     flushInterval |-> IF conf.flushInterval = 0 THEN config.flushInterval
                       ELSE conf.flushInterval,
     resendLimit |-> IF conf.resendLimit = 0 THEN config.resendLimit ELSE conf.resendLimit,
     credentials |-> IF conf.credentials = Undefined THEN config.credentials
                     ELSE conf.credentials]

\* mutant: the interval this._timer holds is not cleared
_setupTimer_leak(config) ==
    /\ _timer' = _timer + 1
    /\ timers' = ((_timer + 1) :> [flushSize |-> config.flushSize,
                                   flushInterval |-> config.flushInterval]) @@ timers

\* _setupTimer: the interval this._timer holds is cleared, a new one is set
\* that captures flushSize and flushInterval, and its handle is kept in
\* this._timer
_setupTimer(config) ==
    /\ _timer' = _timer + 1
    /\ timers' = ((_timer + 1) :> [flushSize |-> config.flushSize,
                                   flushInterval |-> config.flushInterval]) @@
                     [h \in DOMAIN timers \ {_timer} |-> timers[h]]

\* the config the constructor leaves in this._config
ConstructedConfig(config) ==
    [bufferSize |-> OrDefault(config.bufferSize, BUFFER_SIZE),
     flushSize |-> OrDefault(config.flushSize, FLUSH_SIZE),
     flushInterval |-> OrDefault(config.flushInterval, FLUSH_INTERVAL),
     resendLimit |-> OrDefault(config.resendLimit, RESEND_LIMIT),
     credentials |-> config.credentials]

\* new AWSKinesisProvider(config)
Constructor(config) ==
    /\ _buffer = <<>>
    /\ _config = ConstructedConfig(config)
    /\ _kinesis = Undefined
    /\ _timer = 1
    /\ timers = (1 :> [flushSize |-> ConstructedConfig(config).flushSize,
                       flushInterval |-> ConstructedConfig(config).flushInterval])
    /\ requests = <<>>
    /\ recorded = <<>>

\* configure(config)
Configure(conf) ==
    /\ _timer <= MaxConfigures
    /\ _config' = AssignConfig(_config, conf)
    /\ _setupTimer(AssignConfig(_config, conf))
    /\ UNCHANGED <<managerVars, tabVars, _buffer, _kinesis, requests, recorded>>

\* _putToBuffer: the buffer it leaves and how its promise settles
_putToBuffer(buffer, params) ==
    IF Len(buffer) < BUFFER_SIZE
    THEN [buffer |-> Append(buffer, params), result |-> "true"]
    ELSE [buffer |-> buffer, result |-> "rejected"]

\* record(params), with what Credentials.get() yields
Record(streamName, credentials) ==
    /\ Len(recorded) < MaxRecords
    /\ LET params == [id |-> Len(recorded) + 1, streamName |-> streamName,
                      credentials |-> credentials]
           put == IF credentials = NoCredentials
                  THEN [buffer |-> _buffer, result |-> "false"]
                  ELSE _putToBuffer(_buffer, params)
       IN /\ _buffer' = put.buffer
          /\ recorded' = Append(recorded,
                [id |-> params.id, credentials |-> credentials, result |-> put.result,
                 before |-> _buffer, bufferSize |-> _config.bufferSize,
                 after |-> put.buffer])
    /\ UNCHANGED <<managerVars, tabVars, _config, _kinesis, _timer, timers, requests>>

\* _sendFromBuffer, lines 178-201: consecutive events of the same
\* credentials are collapsed into one group; groups so far, the last one
\* being the open group
RECURSIVE CollapseByCredentials(_, _)
CollapseByCredentials(events, i) ==
    IF i = 0 THEN << <<>> >>
    ELSE IF i = 1 THEN << <<events[1]>> >>
    ELSE LET eventsGroups == CollapseByCredentials(events, i - 1)
             n == Len(eventsGroups)
         IN IF events[i].credentials = events[i - 1].credentials
            THEN [eventsGroups EXCEPT ![n] = Append(@, events[i])]
            ELSE Append(eventsGroups, <<events[i]>>)

\* Object.keys(records) of lines 218-237: the stream names of the group in
\* the order they first occur
RECURSIVE StreamNames(_)
StreamNames(group) ==
    IF Len(group) = 0 THEN <<>>
    ELSE LET before == StreamNames(SubSeq(group, 1, Len(group) - 1))
             streamName == group[Len(group)].streamName
         IN IF \E j \in 1..Len(before) : before[j] = streamName
            THEN before
            ELSE Append(before, streamName)

\* records[streamName]: the ids of the group's events for the stream
RecordsOf(group, streamName) ==
    LET evts == SelectSeq(group, LAMBDA e : e.streamName = streamName)
    IN [j \in 1..Len(evts) |-> evts[j].id]

\* _init: the client (named by the credentials it was built with) and
\* this._config.credentials it leaves.  The client is kept when there is
\* one and this._config.credentials equal the group's credentials.
_init(kinesis, configCredentials, credentials) ==
    IF kinesis # Undefined /\ configCredentials # Undefined
                           /\ configCredentials = credentials
    THEN [kinesis |-> kinesis, credentials |-> configCredentials]
    ELSE [kinesis |-> credentials, credentials |-> credentials]

\* _sendEvents after _init: one PutRecordsCommand per stream name of the
\* group, sent once with this._kinesis
_sendEvents(group, kinesis) ==
    LET names == StreamNames(group)
    IN [j \in 1..Len(names) |->
           [StreamName |-> names[j], Records |-> RecordsOf(group, names[j]),
            credentials |-> group[1].credentials, client |-> kinesis,
            status |-> "sent", attempts |-> 1]]

\* eventsGroups.map(_sendEvents) over the first n groups: the requests
\* sent, and the client and this._config.credentials left behind.  An
\* empty group returns at line 210.
RECURSIVE SendGroups(_, _, _, _)
SendGroups(eventsGroups, n, kinesis, configCredentials) ==
    IF n = 0
    THEN [requests |-> <<>>, kinesis |-> kinesis, credentials |-> configCredentials]
    ELSE LET sent == SendGroups(eventsGroups, n - 1, kinesis, configCredentials)
             group == eventsGroups[n]
         IN IF Len(group) = 0
            THEN sent
            ELSE LET client == _init(sent.kinesis, sent.credentials, group[1].credentials)
                 IN [requests |-> sent.requests \o _sendEvents(group, client.kinesis),
                     kinesis |-> client.kinesis, credentials |-> client.credentials]

\* mutant: a tick drains the whole buffer
size_whole(buffer, flushSize) == Len(buffer)

\* size of lines 101-102
size(buffer, flushSize) == IF Len(buffer) < flushSize THEN Len(buffer) ELSE flushSize

\* the interval with handle h fires (lines 100-109, then _sendFromBuffer)
FlushTick(h) ==
    /\ h \in DOMAIN timers
    /\ LET n == size(_buffer, timers[h].flushSize)
           events == SubSeq(_buffer, 1, n)
           eventsGroups == CollapseByCredentials(events, Len(events))
           sent == SendGroups(eventsGroups, Len(eventsGroups), _kinesis, _config.credentials)
       IN /\ _buffer' = SubSeq(_buffer, n + 1, Len(_buffer))
          /\ requests' = requests \o sent.requests
          /\ _kinesis' = sent.kinesis
          /\ _config' = [_config EXCEPT !.credentials = sent.credentials]
    /\ UNCHANGED <<managerVars, tabVars, _timer, timers, recorded>>

\* this._kinesis.send(command) settles: on failure the catch of line 251
\* logs and the records are not sent again
SendReturn(i, ok) ==
    /\ i \in 1..Len(requests)
    /\ requests[i].status = "sent"
    /\ requests' = [requests EXCEPT ![i].status = IF ok THEN "ok" ELSE "failed"]
    /\ UNCHANGED <<managerVars, tabVars, _buffer, _config, _kinesis, _timer, timers, recorded>>

InitKinesis ==
    /\ InitFirstVisit
    /\ idbState = "absent"
    /\ ManagerConstructed
    /\ TabsIdle
    /\ \E config \in ConfigOptions : Constructor(config)

NextKinesis ==
    \/ \E conf \in ConfigOptions : Configure(conf)
    \/ \E streamName \in Streams, credentials \in CredentialSet \cup {NoCredentials} :
          Record(streamName, credentials)
    \/ \E h \in DOMAIN timers : FlushTick(h)
    \/ \E i \in 1..Len(requests), ok \in BOOLEAN : SendReturn(i, ok)

SpecKinesis == InitKinesis /\ [][NextKinesis]_vars

\* =================================================================== claims
CreateCalls == {c \in 1..Len(calls) : calls[c].op = "createTask"}
ListCalls == {c \in 1..Len(calls) : calls[c].op = "listTasks"}

\* the session the call found was older than the ttl when the call was made
ExpiredAtStart(c) ==
    /\ calls[c].hadSession
    /\ calls[c].startedAt - calls[c].session.timeStarted > oneHourInMs

UnexpiredAtStart(c) ==
    /\ calls[c].hadSession
    /\ calls[c].startedAt - calls[c].session.timeStarted <= oneHourInMs

Resolved(c) == calls[c].pc = "done" /\ calls[c].result = "task"

\* C1: a createTask call that found a session older than the ttl under its
\* fingerprint never returns a task bound to that session's uploadId: it
\* sends createMultipartUpload and the task is bound to the new uploadId.
C1_ExpiredSessionNeverReused ==
    \A c \in CreateCalls :
        (ExpiredAtStart(c) /\ Resolved(c)) =>
            /\ calls[c].sentCreate
            /\ tasks[calls[c].task].uploadId # calls[c].session.uploadId

\* C2: a createTask call that found an unexpired session sends ListParts for
\* its uploadId, and when the answer is a well-formed listing the call
\* resolves, without createMultipartUpload, with a task bound to the cached
\* uploadId whose pre-completed parts are the listing's parts; the task
\* uploads none of them.
C2_ResumeFromListing ==
    \A c \in CreateCalls :
        UnexpiredAtStart(c) =>
            /\ calls[c].listedUploadId = calls[c].session.uploadId
            /\ calls[c].listOutcome = "ok" =>
                  /\ Resolved(c)
                  /\ ~calls[c].sentCreate
                  /\ tasks[calls[c].task].uploadId = calls[c].session.uploadId
                  /\ tasks[calls[c].task].seeded = calls[c].cachedUpload.Parts
                  /\ tasks[calls[c].task].uploaded \cap calls[c].cachedUpload.Parts = {}

C2_Witness ==
    \E c \in CreateCalls :
        /\ UnexpiredAtStart(c)
        /\ calls[c].listOutcome = "ok"
        /\ calls[c].cachedUpload.Parts = {1}
        /\ tasks[calls[c].task].state = "COMPLETED"
        /\ tasks[calls[c].task].uploaded = {2}

ListFailed(c) == calls[c].listOutcome \in {"noParts", "noUploadId", "throw"}

\* C3: when ListParts for an unexpired cached session throws or answers
\* without UploadId or without Parts, the call is not rejected for it: it
\* enters the fresh path, the only errors it can end with are those of the
\* fresh path itself, and the task it resolves with is bound to the uploadId
\* of createMultipartUpload, not to the cached one, with no parts seeded.
C3_ListFailureFallsBack ==
    \A c \in CreateCalls :
        (UnexpiredAtStart(c) /\ ListFailed(c)) =>
            /\ calls[c].pc \in {"awaitFind", "awaitStore", "awaitCreate", "done", "hung"}
            /\ calls[c].error \in {"", "createMultipartUpload", "idbRequest", "idbOpen"}
            /\ calls[c].pc = "done" => calls[c].result \in {"task", "rejected"}
            /\ (calls[c].pc = "done" /\ calls[c].error = "") => Resolved(c)
            /\ Resolved(c) =>
                  /\ calls[c].sentCreate
                  /\ tasks[calls[c].task].uploadId # calls[c].session.uploadId
                  /\ tasks[calls[c].task].seeded = {}

C3_Witness ==
    /\ \E c \in CreateCalls :
          /\ UnexpiredAtStart(c) /\ calls[c].listOutcome = "throw"
          /\ Resolved(c) /\ tasks[calls[c].task].uploadId # calls[c].session.uploadId
    /\ \E c \in CreateCalls :
          /\ UnexpiredAtStart(c) /\ calls[c].listOutcome = "noParts"
          /\ Resolved(c) /\ tasks[calls[c].task].uploadId # calls[c].session.uploadId

\* the fingerprint under which the task's session is kept
TaskFileKey(t) ==
    _getFileKey(calls[tasks[t].emitter].file, calls[tasks[t].emitter].bucket,
                calls[tasks[t].emitter].key)

\* the session map holds, under the task's fingerprint, a session of the
\* task's uploadId
HasOwnEntry(t) ==
    /\ hasItem
    /\ MapHas(uploads, TaskFileKey(t))
    /\ MapGet(uploads, TaskFileKey(t)).uploadId = tasks[t].uploadId

\* C4 as stated: no task in COMPLETED, ABORTED or FAILED has a session entry
\* under its fingerprint.
C4_TerminalTaskHasNoEntry ==
    \A t \in 1..Len(tasks) : tasks[t].state \in Terminal => ~HasOwnEntry(t)

\* C4 amended: no task in COMPLETED or ABORTED has a session entry under its
\* fingerprint (a FAILED task keeps its entry).
C4_EndedTaskHasNoEntry ==
    \A t \in 1..Len(tasks) : tasks[t].state \in {"COMPLETED", "ABORTED"} => ~HasOwnEntry(t)

C4_Witness ==
    /\ \E t \in 1..Len(tasks) :
          /\ tasks[t].state = "COMPLETED"
          /\ calls[tasks[t].emitter].sentCreate
          /\ ~MapHas(uploads, TaskFileKey(t))
    /\ \E t \in 1..Len(tasks) :
          /\ tasks[t].state = "ABORTED"
          /\ ~MapHas(uploads, TaskFileKey(t))

\* C5: once the abort that a purge sweep sent for an expired session has
\* succeeded, the session is no longer in the persisted map.
C5_AbortedSessionIsPurged ==
    \A i \in 1..Len(aborts) :
        aborts[i].status = "ok" =>
            ~(/\ MapHas(uploads, aborts[i].k)
              /\ MapGet(uploads, aborts[i].k).uploadId = aborts[i].uploadId)

\* C6: the purge sweep writes every session whose age is at most the ttl
\* back under its key with all fields unchanged, and sends no abort for it.
C6_PurgeKeepsUnexpired ==
    lastPurge.done =>
        \A i \in 1..Len(lastPurge.before) :
            ~(lastPurge.time - lastPurge.before[i].v.timeStarted > lastPurge.ttl) =>
                /\ MapHas(lastPurge.after, lastPurge.before[i].k)
                /\ MapGet(lastPurge.after, lastPurge.before[i].k) = lastPurge.before[i].v
                /\ \A j \in 1..Len(lastPurge.sent) :
                      /\ lastPurge.sent[j].k # lastPurge.before[i].k
                      /\ lastPurge.sent[j].uploadId # lastPurge.before[i].v.uploadId

C6_Witness ==
    /\ lastPurge.done
    /\ Len(lastPurge.sent) > 0
    /\ \E i \in 1..Len(lastPurge.before) :
          /\ lastPurge.time - lastPurge.before[i].v.timeStarted = lastPurge.ttl
          /\ MapHas(lastPurge.after, lastPurge.before[i].k)

\* a step in which addTask runs the purge sweep
PurgeStep ==
    /\ Len(calls') = Len(calls) + 1
    /\ calls'[Len(calls')].op = "createTask"

JoinPairs(c) ==
    {p \in (1..Len(calls[c].snapshot)) \X (1..Len(calls[c].files)) :
        calls[c].snapshot[p[1]].v.fileName = calls[c].files[p[2]].name}

\* C8: listTasks returns exactly one task per (session, stored file) pair
\* with equal file name, bound to the session's bucket, key and uploadId;
\* a stored file without a session yields no task.
C8_ListTasksIsTheJoin ==
    \A c \in ListCalls :
        calls[c].result = "tasks" =>
            /\ Len(calls[c].listed) = Cardinality(JoinPairs(c))
            /\ \A p \in JoinPairs(c) :
                  \E n \in 1..Len(calls[c].listed) :
                      calls[c].listed[n] =
                          [bucket |-> calls[c].snapshot[p[1]].v.bucket,
                           key |-> calls[c].snapshot[p[1]].v.key,
                           uploadId |-> calls[c].snapshot[p[1]].v.uploadId,
                           file |-> calls[c].files[p[2]]]
            /\ \A n \in 1..Len(calls[c].listed) : calls[c].listed[n].uploadId # Undefined

\* C9: a call during which a Session Store or Content Store operation
\* failed is rejected: it is not resolved and it is not left pending.
C9_StoreFailureRejects ==
    \A c \in 1..Len(calls) :
        calls[c].storeFailure => (calls[c].pc = "done" /\ calls[c].result = "rejected")

\* C10: after a task has reached a terminal state, getTask of its uploadId
\* returns absent.
C10_TerminalTaskUnregistered ==
    \A t \in 1..Len(tasks) :
        tasks[t].state \in Terminal => getTask(tasks[t].uploadId) = 0


\* every uploadId the object store can hand out within the bounds
UploadIds == {UploadIdOf(n) : n \in 1..(MaxCalls + 1)}

\* the uploadIds some task was built for
BuiltUploadIds == {tasks[t].uploadId : t \in 1..Len(tasks)}

\* C11: when createTask returns a task bound to an uploadId, resumed or
\* fresh, getTask of that uploadId returns that task; getTask of an uploadId
\* no task was registered under returns nothing.  getTask reads the
\* registry only.
C11_GetTaskReturnsCreated ==
    [][/\ \A c \in 1..Len(calls) :
            (~Resolved(c) /\ Resolved(c)') =>
                \A u \in UploadIds :
                    u = tasks'[calls'[c].task].uploadId => getTask(u)' = calls'[c].task
       /\ \A u \in UploadIds \ BuiltUploadIds' : getTask(u)' = 0]_vars

\* a resumed and a fresh createTask have returned, and getTask gives the
\* task of each
C11_Witness ==
    \E c, d \in CreateCalls :
        /\ Resolved(c) /\ calls[c].listOutcome = "ok"
        /\ Resolved(d) /\ calls[d].sentCreate
        /\ getTask(tasks[calls[c].task].uploadId) = calls[c].task
        /\ getTask(tasks[calls[d].task].uploadId) = calls[d].task
        /\ UploadIds \ BuiltUploadIds # {}


CallFileKey(c) == _getFileKey(calls[c].file, calls[c].bucket, calls[c].key)

\* the step in which createMultipartUpload is answered and call c returns
\* its fresh task
FreshReturn(c) == calls[c].pc = "awaitCreate" /\ Resolved(c)'

\* C12: when createTask succeeds by the fresh path, the Session Store holds
\* under the file's fingerprint a session whose uploadId is the one
\* createMultipartUpload returned and the task's, whose bucket, key and
\* accessLevel are the request's and whose timeStarted and lastTouched are
\* the creation time; the task is registered under that uploadId.
C12_FreshSessionWritten ==
    [][\A c \in 1..Len(calls) :
          FreshReturn(c) =>
             /\ hasItem'
             /\ MapHas(uploads', CallFileKey(c))
             /\ LET s == MapGet(uploads', CallFileKey(c))
                    t == calls'[c].task
                IN /\ s.uploadId = tasks'[t].uploadId
                   /\ s.uploadId \notin DOMAIN remoteUploads
                   /\ s.uploadId \in DOMAIN remoteUploads'
                   /\ s.bucket = calls[c].bucket
                   /\ s.key = calls[c].key
                   /\ s.accessLevel = calls[c].accessLevel
                   /\ s.timeStarted = now
                   /\ s.lastTouched = now
                   /\ s.uploadId \in DOMAIN uploadTasks'
                   /\ uploadTasks'[s.uploadId] = t]_vars

\* a fresh createTask has returned after the clock moved on, and its
\* session is in the store with its task registered
C12_Witness ==
    \E c \in CreateCalls :
        /\ Resolved(c) /\ calls[c].sentCreate
        /\ now > 0
        /\ hasItem /\ MapHas(uploads, CallFileKey(c))
        /\ MapGet(uploads, CallFileKey(c)).uploadId = tasks[calls[c].task].uploadId
        /\ MapGet(uploads, CallFileKey(c)).timeStarted = now
        /\ getTask(tasks[calls[c].task].uploadId) = calls[c].task


\* the step in which createTask is called and sends ListParts for the
\* session it found
ListPartsSent ==
    /\ Len(calls') = Len(calls) + 1
    /\ calls'[Len(calls')].pc = "awaitListParts"

\* C13: when createTask resumes a stored session, the session's lastTouched
\* in the persisted store is set to the time of the call and its other
\* fields are unchanged; the other sessions are unchanged, and the answer
\* to ListParts that completes the resume writes nothing.
C13_ResumeTouchesSession ==
    [][/\ ListPartsSent =>
            LET c == Len(calls')
                k == _getFileKey(calls'[c].file, calls'[c].bucket, calls'[c].key)
            IN /\ hasItem /\ hasItem'
               /\ MapHas(uploads, k) /\ MapHas(uploads', k)
               /\ MapGet(uploads', k).lastTouched = calls'[c].startedAt
               /\ calls'[c].startedAt = now
               /\ MapGet(uploads', k).uploadId = MapGet(uploads, k).uploadId
               /\ MapGet(uploads', k).timeStarted = MapGet(uploads, k).timeStarted
               /\ MapGet(uploads', k).bucket = MapGet(uploads, k).bucket
               /\ MapGet(uploads', k).key = MapGet(uploads, k).key
               /\ MapGet(uploads', k).accessLevel = MapGet(uploads, k).accessLevel
               /\ MapGet(uploads', k).fileName = MapGet(uploads, k).fileName
               /\ MapKeys(uploads') = MapKeys(uploads)
               /\ \A j \in MapKeys(uploads) \ {k} : MapGet(uploads', j) = MapGet(uploads, j)
       /\ \A c \in 1..Len(calls) :
            (calls[c].pc = "awaitListParts" /\ Resolved(c)') =>
                UNCHANGED <<hasItem, uploads>>]_vars

\* a createTask called one hour after the session was last touched has
\* resumed it, and the stored session carries the time of that call
C13_Witness ==
    \E c \in CreateCalls :
        /\ Resolved(c) /\ calls[c].listOutcome = "ok"
        /\ calls[c].startedAt > calls[c].session.lastTouched
        /\ hasItem /\ MapHas(uploads, CallFileKey(c))
        /\ MapGet(uploads, CallFileKey(c)) =
              [calls[c].session EXCEPT !.lastTouched = calls[c].startedAt]


\* no fingerprint has two sessions in the stored record
OneSessionPerFingerprint == Cardinality(MapKeys(uploads)) = Len(uploads)

\* C15: the Session Store holds at most one session per fingerprint in
\* every reachable state; a fresh createTask writes its session under the
\* fingerprint, replacing the one that was there, and leaves the sessions
\* of all other fingerprints as they were.
C15_OneSessionPerFingerprint ==
    /\ []OneSessionPerFingerprint
    /\ [][\A c \in 1..Len(calls) :
             FreshReturn(c) =>
                /\ MapKeys(uploads') = MapKeys(StoredUploads) \cup {CallFileKey(c)}
                /\ \A j \in MapKeys(StoredUploads) \ {CallFileKey(c)} :
                      MapGet(uploads', j) = MapGet(StoredUploads, j)]_vars

\* a fresh createTask found a session under its fingerprint and replaced
\* it, next to the session of another fingerprint
C15_Witness ==
    \E c \in CreateCalls :
        /\ Resolved(c) /\ calls[c].sentCreate /\ calls[c].hadSession
        /\ hasItem /\ Len(uploads) = 2
        /\ OneSessionPerFingerprint
        /\ MapHas(uploads, CallFileKey(c))
        /\ MapGet(uploads, CallFileKey(c)).uploadId = tasks[calls[c].task].uploadId
        /\ MapGet(uploads, CallFileKey(c)).uploadId # calls[c].session.uploadId


\* C16: a successful fresh createTask for a named file leaves a blob under
\* the file's name in the Content Store.  When its lookup finds none stored
\* under the name, the supplied file is stored under it before
\* createMultipartUpload is sent; when it finds one, the call leaves the
\* Content Store unchanged.
C16_FreshPathStoresFile ==
    /\ [](\A c \in CreateCalls :
            (Resolved(c) /\ calls[c].sentCreate /\ calls[c].file.name # Undefined) =>
                calls[c].file.name \in DOMAIN idbFiles)
    /\ [][\A c \in 1..Len(calls) :
            /\ (calls[c].pc = "awaitFind" /\ calls'[c].pc = "awaitCreate") =>
                  /\ calls[c].file.name \in DOMAIN idbFiles
                  /\ idbFiles' = idbFiles
            /\ (calls[c].pc = "awaitFind" /\ calls'[c].pc = "awaitStore") =>
                  /\ calls[c].file.name \notin DOMAIN idbFiles
                  /\ idbFiles' = idbFiles
            /\ (calls[c].pc = "awaitStore" /\ calls'[c].pc = "awaitCreate") =>
                  /\ calls[c].file.name \in DOMAIN idbFiles'
                  /\ idbFiles'[calls[c].file.name] = calls[c].file
                  /\ \A n \in DOMAIN idbFiles \ {calls[c].file.name} :
                        n \in DOMAIN idbFiles' /\ idbFiles'[n] = idbFiles[n]
            /\ FreshReturn(c) => idbFiles' = idbFiles]_vars

\* one fresh createTask stored its file, a later one for the same name with
\* other bytes found it and left it in place
C16_Witness ==
    \E c, d \in CreateCalls :
        /\ Resolved(c) /\ calls[c].sentCreate
        /\ Resolved(d) /\ calls[d].sentCreate
        /\ c < d
        /\ calls[c].session = NoSession
        /\ calls[c].file.name = calls[d].file.name
        /\ calls[c].file # calls[d].file
        /\ calls[c].f = calls[c].file
        /\ calls[d].f = calls[c].file
        /\ idbFiles[calls[c].file.name] = calls[c].file


\* C17: the manager writes the stores only at lifecycle boundaries: when a
\* call starts (sweep and resume touch), when a fresh session is created
\* (the file, then the session) and when a task completes or is aborted.
\* A task's part-progress event leaves both stores unchanged.
C17_ProgressWritesNothing ==
    [][/\ \A t \in 1..Len(tasks) :
            tasks'[t].completedParts # tasks[t].completedParts =>
                UNCHANGED <<hasItem, uploads, idbState, idbFiles>>
       /\ (hasItem' # hasItem \/ uploads' # uploads) =>
            \/ Len(calls') > Len(calls)
            \/ \E c \in 1..Len(calls) : FreshReturn(c)
            \/ \E t \in 1..Len(tasks) :
                  /\ tasks[t].state \notin Terminal
                  /\ tasks'[t].state \in {"COMPLETED", "ABORTED"}
       /\ idbFiles' # idbFiles =>
            \E c \in 1..Len(calls) :
                calls[c].pc = "awaitStore" /\ calls'[c].pc = "awaitCreate"]_vars

\* a task has uploaded a part and its session is still in the store
C17_Witness ==
    \E t \in 1..Len(tasks) :
        /\ tasks[t].state = "IN_PROGRESS"
        /\ tasks[t].uploaded # {}
        /\ calls[tasks[t].emitter].handlers
        /\ HasOwnEntry(t)


\* up to write n, the latest write that concerns the key of write i is i
LatestFor(i, n) == \A j \in (i + 1)..n : tabLog[j].fileKey # tabLog[i].fileKey

\* after write n an entry written by one instance is absent though nothing
\* removed it
EntryLost(n) ==
    \E i \in 1..n :
        /\ tabLog[i].op = "add" /\ LatestFor(i, n)
        /\ ~MapHas(tabLog[n].after, tabLog[i].fileKey)

\* after write n an entry removed by one instance is present again though
\* nothing added it
EntryBack(n) ==
    \E i \in 1..n :
        /\ tabLog[i].op = "remove" /\ LatestFor(i, n)
        /\ MapHas(tabLog[n].after, tabLog[i].fileKey)

\* C14: the write that ends a read-modify-write cycle of one instance
\* stores the object that instance read, with its own change: an entry the
\* other instance added since that read is absent after the write and an
\* entry it removed since is present again.  With two instances there is
\* an interleaving in which this loses an update (the witness).
C14_WriteOverwritesFromOwnRead ==
    [][\A m \in Tabs :
          (tabs[m].pc = "write" /\ tabs'[m].pc = "idle") =>
             /\ \A k \in MapKeys(StoredUploads) \ MapKeys(tabs[m].uploads) :
                   k # tabs[m].fileKey => ~MapHas(uploads', k)
             /\ \A k \in MapKeys(tabs[m].uploads) \ MapKeys(StoredUploads) :
                   k # tabs[m].fileKey => MapHas(uploads', k)]_vars

\* both kinds of lost update have happened: after one write an added entry
\* was absent, after another a removed entry was present again
C14_Witness ==
    /\ \E n \in 1..Len(tabLog) : EntryLost(n)
    /\ \E n \in 1..Len(tabLog) : EntryBack(n)


\* C19 as stated: the buffer never holds more than the configured
\* bufferSize events, and a record() made when it holds that many is
\* rejected and leaves it as it was.
C19_BufferWithinConfiguredSize ==
    /\ Len(_buffer) <= _config.bufferSize
    /\ \A i \in 1..Len(recorded) :
          (recorded[i].credentials # NoCredentials
             /\ Len(recorded[i].before) >= recorded[i].bufferSize) =>
                /\ recorded[i].result = "rejected"
                /\ recorded[i].after = recorded[i].before

\* the requests whose send failed; the provider does nothing more with them
GivenUp == {i \in 1..Len(requests) : requests[i].status = "failed"}

\* C20 as stated: records whose send failed are given up only after
\* resendLimit failed attempts.
C20_GivenUpAfterResendLimit ==
    \A i \in GivenUp : requests[i].attempts >= _config.resendLimit


\* C22: COMPLETED, ABORTED and FAILED are terminal: no step moves a task
\* that is in one of them to another state.
C22_TerminalStatesAreFinal ==
    [][\A t \in 1..Len(tasks) :
          tasks[t].state \in Terminal => tasks'[t].state = tasks[t].state]_vars

\* one task has completed and another was aborted, after which the clock
\* moved on
C22_Witness ==
    \E t, x \in 1..Len(tasks) :
        /\ tasks[t].state = "COMPLETED"
        /\ tasks[x].state = "ABORTED"
        /\ now > calls[tasks[t].emitter].startedAt


\* C23: a task's set of completed parts only grows: no step removes a part
\* from it, in whatever order parts complete, and the parts the listing
\* reported when the task was resumed are in it from the start on.
C23_CompletedPartsOnlyGrow ==
    /\ [](\A c \in CreateCalls :
            (Resolved(c) /\ calls[c].listOutcome = "ok") =>
                calls[c].cachedUpload.Parts \subseteq tasks[calls[c].task].completedParts)
    /\ [][\A t \in 1..Len(tasks) :
            tasks[t].completedParts \subseteq tasks'[t].completedParts]_vars

\* a resumed task seeded with part 1 has uploaded part 2 itself
C23_Witness ==
    \E c \in CreateCalls :
        /\ Resolved(c) /\ calls[c].listOutcome = "ok"
        /\ calls[c].cachedUpload.Parts = {1}
        /\ tasks[calls[c].task].uploaded = {2}
        /\ tasks[calls[c].task].completedParts = {1, 2}


\* task t was built by _initMultiupload for a new multipart upload
FreshTask(t) == calls[tasks[t].emitter].sentCreate

Ended == {"COMPLETED", "ABORTED"}

\* C25 as stated: the session of a fresh task stays in the store until a
\* task of that uploadId completes or is aborted or a later fresh
\* createTask replaces it; the end of an earlier task of the fingerprint,
\* bound to another uploadId, does not remove it.
C25_NewerSessionSurvives ==
    \A t \in 1..Len(tasks) :
        (/\ FreshTask(t)
         /\ \A x \in 1..Len(tasks) :
               tasks[x].uploadId = tasks[t].uploadId => tasks[x].state \notin Ended
         /\ \A x \in (t + 1)..Len(tasks) :
               FreshTask(x) => TaskFileKey(x) # TaskFileKey(t))
        => HasOwnEntry(t)

\* C26 as stated: the task a fresh createTask returns holds the file the
\* caller supplied in that call.
C26_FreshTaskHoldsSuppliedFile ==
    \A c \in CreateCalls :
        (Resolved(c) /\ calls[c].sentCreate) => tasks[calls[c].task].file = calls[c].file

\* no other createTask was made for the fingerprint of call c
OnlyCallFor(c) ==
    \A d \in CreateCalls \ {c} : CallFileKey(d) # CallFileKey(c)

\* C27 as stated: after a createTask has rejected, the session it found
\* under its fingerprint is as it was before the call, lastTouched
\* included (no other call or task works on that fingerprint).
C27_RejectedCallLeavesSession ==
    \A c \in CreateCalls :
        (/\ calls[c].pc = "done" /\ calls[c].result = "rejected"
         /\ calls[c].hadSession
         /\ OnlyCallFor(c))
        => /\ hasItem
           /\ MapHas(uploads, CallFileKey(c))
           /\ MapGet(uploads, CallFileKey(c)) = calls[c].session


\* C28: every session in the store has timeStarted <= lastTouched in every
\* reachable state, and no step changes the timeStarted of a session that
\* stays in the store under its uploadId (a resume touches lastTouched
\* only, the sweep writes the sessions back as they are).
C28_StartedBeforeTouched ==
    /\ [](\A i \in 1..Len(uploads) : uploads[i].v.timeStarted <= uploads[i].v.lastTouched)
    /\ [][\A k \in MapKeys(uploads) \cap MapKeys(uploads') :
            MapGet(uploads', k).uploadId = MapGet(uploads, k).uploadId =>
                MapGet(uploads', k).timeStarted = MapGet(uploads, k).timeStarted]_vars

\* after a sweep, the store holds a session that was resumed later than
\* it was started next to one that was created after the clock moved on
C28_Witness ==
    /\ lastPurge.done
    /\ \E i, j \in 1..Len(uploads) :
          /\ uploads[i].v.timeStarted < uploads[i].v.lastTouched
          /\ uploads[j].v.timeStarted = uploads[j].v.lastTouched
          /\ uploads[j].v.timeStarted > 0


\* the promise call c awaits has no handler left that settles it, and no
\* callback that is still to come refers to it
Stuck(c) == calls[c].pc = "hung"

\* C24 as stated, in its finite form: no createTask call gets into a state
\* from which it can neither resolve nor reject, whatever callbacks are
\* still delivered.
C24_EveryCallCanSettle ==
    \A c \in CreateCalls : ~Stuck(c)


\* the ids of the events in the requests from index lo + 1 on
SentIds(reqs, lo) ==
    UNION {{reqs[j].Records[x] : x \in 1..Len(reqs[j].Records)} : j \in (lo + 1)..Len(reqs)}

\* C21: a flush tick removes exactly min(buffer length, flushSize) events
\* from the front of the buffer and sends those; what remains keeps its
\* order.  A tick on an empty buffer sends nothing: every step that sends
\* a request takes at least one event from the buffer.
C21_FlushTakesFront ==
    [][(Len(_buffer') < Len(_buffer) \/ Len(requests') > Len(requests)) =>
          LET n == IF Len(_buffer) < _config.flushSize THEN Len(_buffer)
                   ELSE _config.flushSize
          IN /\ n > 0
             /\ Len(_buffer') = Len(_buffer) - n
             /\ \A i \in 1..Len(_buffer') : _buffer'[i] = _buffer[n + i]
             /\ Len(requests') > Len(requests)
             /\ SentIds(requests', Len(requests)) = {_buffer[i].id : i \in 1..n}]_vars

\* with flushSize 2, a tick on a buffer of three events has sent the two
\* oldest and left the third
C21_Witness ==
    /\ _config.flushSize = 2
    /\ Len(recorded) = 3
    /\ Len(recorded[3].before) = 2
    /\ Len(_buffer) = 1
    /\ _buffer[1].id = 3
    /\ SentIds(requests, 0) = {1, 2}


\* C29: after the constructor and any configure() calls exactly one flush
\* timer is live, the one this._timer holds, and it runs with the
\* flushSize and flushInterval of the current configuration.
C29_OneFlushTimer ==
    /\ DOMAIN timers = {_timer}
    /\ timers[_timer].flushSize = _config.flushSize
    /\ timers[_timer].flushInterval = _config.flushInterval

\* the provider was constructed with one of the two options and
\* configure() set the other: the only live timer is the second one and
\* runs with both
C29_Witness ==
    /\ _timer = 2
    /\ _config.flushSize = 2
    /\ _config.flushInterval = 1
    /\ DOMAIN timers = {2}
    /\ timers[2] = [flushSize |-> 2, flushInterval |-> 1]


\* the indexes of the requests the step sends
NewRequests == (Len(requests) + 1)..Len(requests')

\* request r holds the event with this id
Holds(r, id) == \E x \in 1..Len(r.Records) : r.Records[x] = id

\* The events a step takes from the buffer are partitioned as lines 178-237
\* say: each is in exactly one of the requests sent, the one of its group
\* and streamName; a request's records are in buffer order and lie within
\* one run of consecutive events with equal credentials, and events of one
\* run and one stream share a request.
FlushPartitions ==
    LET n == Len(_buffer) - Len(_buffer')
    IN /\ \A i \in 1..n :
            /\ Cardinality({j \in NewRequests : Holds(requests'[j], _buffer[i].id)}) = 1
            /\ \A j \in NewRequests :
                  Holds(requests'[j], _buffer[i].id) =>
                     /\ requests'[j].StreamName = _buffer[i].streamName
                     /\ requests'[j].credentials = _buffer[i].credentials
       /\ \A j \in NewRequests :
            /\ Len(requests'[j].Records) > 0
            /\ \A x, y \in 1..Len(requests'[j].Records) :
                  x < y => requests'[j].Records[x] < requests'[j].Records[y]
            /\ \A i \in 1..n :
                  (/\ requests'[j].Records[1] <= _buffer[i].id
                   /\ _buffer[i].id <= requests'[j].Records[Len(requests'[j].Records)])
                  => _buffer[i].credentials = requests'[j].credentials
       /\ \A i, k \in 1..n :
            (/\ i < k
             /\ _buffer[i].streamName = _buffer[k].streamName
             /\ \A x \in i..k : _buffer[x].credentials = _buffer[i].credentials)
            => \E j \in NewRequests :
                  Holds(requests'[j], _buffer[i].id) /\ Holds(requests'[j], _buffer[k].id)

\* C30 as stated: a flush partitions the events it takes into groups of
\* consecutive events with equal credentials, each event goes into exactly
\* one request, that of its streamName within its group, in buffer order,
\* and every request of a group is sent with a client built from the
\* group's credentials.
C30_FlushGroupsByCredentials ==
    [][Len(requests') > Len(requests) =>
          /\ FlushPartitions
          /\ \A j \in NewRequests : requests'[j].client = requests'[j].credentials]_vars

\* the partition alone
FlushPartitionsOnly == [][Len(requests') > Len(requests) => FlushPartitions]_vars

====
